---- MODULE Spec2Model ----
(***************************************************************************)
(* Model of src/main.py: the PDF extraction pipeline.                      *)
(*   main                   the sequential per-document loop (l.155-197)   *)
(*   get_pdf_content        text extraction (l.51-57)                      *)
(*   extract_data_from_pdf  type hint, prompt, model call, decoding        *)
(*                          (l.60-152)                                     *)
(*   insert_document_data   INSERT + commit on the shared connection       *)
(*                          (l.32-48)                                      *)
(*   setup_database         connect + CREATE TABLE IF NOT EXISTS (l.16-29) *)
(* Python dicts are functions over the keys that are present; lists are    *)
(* sequences; an exception is the "raise" outcome of a step.               *)
(***************************************************************************)
EXTENDS Integers, Sequences, FiniteSets, TLC

VARIABLES
    pc,               \* position of the single thread of control
    mode,             \* which entry point drives the model: main / persist / type
    api_key,          \* OPENAI_API_KEY as loaded at import time
    n,                \* len(pdf_files)
    idx,              \* index of the document of the current iteration
    conn,             \* the sqlite connection: "none" | "open" | "closed"
    closes,           \* number of conn.close() calls
    rows,             \* committed rows of table documents, in rowid order
    pending,          \* rows written inside the connection's open transaction
    pdf_content,      \* local of main: text returned by get_pdf_content
    response,         \* local of extract_data_from_pdf: the HTTP response
    document_details, \* local of main: what extract_data_from_pdf returned
    document_type,    \* local of main: value for the document_type column
    stage,            \* per document: how far its pipeline got
    calls,            \* per document: number of requests.post calls
    appends,          \* per document: number of insert_document_data calls
    reports,          \* the per-document outcome lines printed, in order
    issued,           \* persist driver: insert_document_data calls made
    completed,        \* persist driver: insert_document_data calls that returned
    filename,         \* type driver: the filename under test
    inferred          \* type driver: result of the document_type expression

vars == <<pc, mode, api_key, n, idx, conn, closes, rows, pending, pdf_content,
          response, document_details, document_type, stage, calls, appends,
          reports, issued, completed, filename, inferred>>

\* ------------------------------------------------------------------ bounds
MaxDocs == 2
MaxClock == 1
MaxStem == 4
MaxInserts == 3

Docs == 1..MaxDocs
Clock == 0..MaxClock

\* ------------------------------------------------------- python dict / list
EmptyDict == [k \in {} |-> 0]

\* dict.get(key, default)
Get(d, k, default) == IF k \in DOMAIN d THEN d[k] ELSE default

\* ------------------------------------------------------------ the schema
RequiredFields == {"document_type", "summary"}
OptionalFields == {"entities", "dates", "amounts", "key_information"}
SchemaFields == RequiredFields \cup OptionalFields

\* ------------------------------------------------ model-service responses
\* Texts the service can put at output[0].content[0].text.
TextFull == "{document_type,summary,entities,dates,amounts,key_information}"
TextRequiredOnly == "{document_type,summary}"
TextNoSummary == "{document_type,entities}"
TextEmptyObject == "{}"
TextArray == "[]"
TextGarbage == "Sorry, I cannot"

Texts == {TextFull, TextRequiredOnly, TextNoSummary, TextEmptyObject,
          TextArray, TextGarbage}

Value(k) == IF k = "document_type" THEN "invoice" ELSE "v"

ObjectOf(keys) == [k \in keys |-> Value(k)]

\* json.loads: ok = FALSE is JSONDecodeError; isdict = FALSE is a JSON array.
JsonLoads(t) ==
    IF t = TextFull THEN [ok |-> TRUE, isdict |-> TRUE, obj |-> ObjectOf(SchemaFields)]
    ELSE IF t = TextRequiredOnly THEN [ok |-> TRUE, isdict |-> TRUE, obj |-> ObjectOf(RequiredFields)]
    ELSE IF t = TextNoSummary THEN [ok |-> TRUE, isdict |-> TRUE, obj |-> ObjectOf({"document_type", "entities"})]
    ELSE IF t = TextEmptyObject THEN [ok |-> TRUE, isdict |-> TRUE, obj |-> EmptyDict]
    ELSE IF t = TextArray THEN [ok |-> TRUE, isdict |-> FALSE, obj |-> EmptyDict]
    ELSE [ok |-> FALSE, isdict |-> FALSE, obj |-> EmptyDict]

NoDetails == [ok |-> FALSE, isdict |-> FALSE, obj |-> EmptyDict]

\* Response envelopes (the decoded body of a 2xx response).
EnvNoOutput == EmptyDict
EnvEmptyOutput == [output |-> <<>>]
EnvNoContent == [output |-> <<EmptyDict>>]
EnvEmptyContent == [output |-> <<[content |-> <<>>]>>]
EnvNoText == [output |-> <<[content |-> <<EmptyDict>>]>>]
EnvText(t) == [output |-> <<[content |-> <<[text |-> t]>>]>>]

Envelopes == {EnvNoOutput, EnvEmptyOutput, EnvNoContent, EnvEmptyContent, EnvNoText}
                 \cup {EnvText(t) : t \in Texts}

\* A response: HTTP status, whether the body decodes as JSON, the decoded body.
NoResponse == [status |-> 0, json |-> FALSE, body |-> EmptyDict]
Responses ==
    {[status |-> 200, json |-> TRUE, body |-> e] : e \in Envelopes}
    \cup {[status |-> 200, json |-> FALSE, body |-> EmptyDict]}
    \cup {[status |-> s, json |-> TRUE, body |-> EmptyDict] : s \in {401, 429, 500}}

\* response.raise_for_status(): HTTPError for 4xx and 5xx.
RaiseForStatus(r) == r.status >= 400 /\ r.status < 600

\* response.json().get("output", [{}])[0].get("content", [{}])[0].get("text", "{}")
\* ok = FALSE: an exception (JSONDecodeError of the body, IndexError of [0]).
ReceivedJson(r) ==
    IF ~r.json THEN [ok |-> FALSE, text |-> ""]
    ELSE LET output == Get(r.body, "output", <<EmptyDict>>) IN
         IF Len(output) = 0 THEN [ok |-> FALSE, text |-> ""]
         ELSE LET content == Get(output[1], "content", <<EmptyDict>>) IN
              IF Len(content) = 0 THEN [ok |-> FALSE, text |-> ""]
              ELSE [ok |-> TRUE, text |-> Get(content[1], "text", "{}")]


\* ------------------------------------------------------ the type hint, l.61
\* Filenames are sequences of one-character strings.
StemChars == {"a", "b", ".", "/"}
Ext == <<".", "p", "d", "f">>

RECURSIVE Split(_, _)
\* str.split(sep): the pieces between the occurrences of sep, at least one.
Split(s, sep) ==
    IF \A i \in 1..Len(s) : s[i] # sep THEN <<s>>
    ELSE LET i == CHOOSE k \in 1..Len(s) :
                      s[k] = sep /\ \A j \in 1..(k - 1) : s[j] # sep
         IN <<SubSeq(s, 1, i - 1)>> \o Split(SubSeq(s, i + 1, Len(s)), sep)

NotDerived == [ok |-> FALSE, value |-> <<>>]

\* filename.split('.')[-2].split('/')[-1] if '/' in filename
\*     else filename.split('.')[0]
\* ok = FALSE is the IndexError of [-2] on a one-piece split.
DocumentType(f) ==
    LET dotted == Split(f, ".") IN
    IF \E i \in 1..Len(f) : f[i] = "/"
    THEN IF Len(dotted) < 2 THEN NotDerived
         ELSE LET segs == Split(dotted[Len(dotted) - 1], "/") IN
              [ok |-> TRUE, value |-> segs[Len(segs)]]
    ELSE [ok |-> TRUE, value |-> dotted[1]]

\* ----------------------------------------------------------------- storage
Terminal == {"Persisted", "Failed"}

Max(S) == CHOOSE x \in S : \A y \in S : y <= x

\* INTEGER PRIMARY KEY: the rowid after the largest one the connection sees.
NextId ==
    LET seen == rows \o pending IN
    IF Len(seen) = 0 THEN 1 ELSE Max({seen[i].id : i \in 1..Len(seen)}) + 1

\* The tuple bound to the INSERT of insert_document_data; json.dumps of a
\* decoded JSON value is stored as that value.
NewRow(f, dtype, data, now) ==
    [id |-> NextId, filename |-> f, document_type |-> dtype,
     extracted_data |-> data, processed_date |-> now]

\* cursor.execute(INSERT ...): the row joins the connection's open transaction.
Executed(row) == Append(pending, row)

\* What conn.commit() leaves in the open transaction when it raises: kept
\* (SQLITE_BUSY) or rolled back by the engine (SQLITE_FULL, SQLITE_IOERR).
CommitFailureLeaves == {pending, <<>>}

\* The table after a successful conn.commit().
Committed == rows \o pending

PriorRow ==
    [id |-> 1, filename |-> 1, document_type |-> "invoice",
     extracted_data |-> ObjectOf(SchemaFields), processed_date |-> -1]

\* documents.db before the run: absent or empty, or holding an earlier run's row.
PriorTables == {<<>>, <<PriorRow>>}

\* ---------------------------------------------------------------- main loop
InitLocals ==
    /\ pdf_content = "none"
    /\ response = NoResponse
    /\ document_details = NoDetails
    /\ document_type = "none"

Init ==
    /\ mode = "main"
    /\ pc = "setup"
    /\ api_key \in {"set", "missing"}
    /\ n \in 1..MaxDocs
    /\ idx = 0
    /\ conn = "none"
    /\ closes = 0
    /\ rows \in PriorTables
    /\ pending = <<>>
    /\ InitLocals
    /\ stage = [d \in Docs |-> "Pending"]
    /\ calls = [d \in Docs |-> 0]
    /\ appends = [d \in Docs |-> 0]
    /\ reports = <<>>
    /\ issued = 0
    /\ completed = 0
    /\ filename = <<>>
    /\ inferred = NotDerived

Ghost == <<issued, completed, filename, inferred>>
Config == <<mode, api_key, n>>
Store == <<conn, closes, rows, pending>>
Locals == <<pdf_content, response, document_details, document_type>>
Progress == <<stage, calls, appends, reports>>

\* the step at the current document raised: control goes to the except clause
Raise ==
    /\ stage' = [stage EXCEPT ![idx] = "Failed"]
    /\ pc' = "except"

\* setup_database(): connect and CREATE TABLE IF NOT EXISTS; an exception here
\* is outside the try and ends the process.
SetupDatabase ==
    /\ pc = "setup"
    /\ \/ /\ conn' = "open"
          /\ pc' = "loop"
       \/ /\ conn' = "none"
          /\ pc' = "crashed"
    /\ UNCHANGED <<Config, idx, closes, rows, pending, Locals, Progress, Ghost>>

\* for pdf_file in pdf_files: the next document, or the end of the list.
LoopNext ==
    /\ pc = "loop"
    /\ idx < n
    /\ idx' = idx + 1
    /\ pc' = "read"
    /\ pdf_content' = "none"
    /\ response' = NoResponse
    /\ document_details' = NoDetails
    /\ document_type' = "none"
    /\ UNCHANGED <<Config, Store, Progress, Ghost>>

LoopEnd ==
    /\ pc = "loop"
    /\ idx = n
    /\ pc' = "close"
    /\ UNCHANGED <<Config, idx, Store, Locals, Progress, Ghost>>

\* get_pdf_content(pdf_file): the text ("" is a value), or an exception of
\* open / PdfReader / extract_text.
GetPdfContent ==
    /\ pc = "read"
    /\ \/ /\ pdf_content' \in {"empty", "text"}
          /\ stage' = [stage EXCEPT ![idx] = "TextExtracted"]
          /\ pc' = "prompt"
       \/ /\ Raise
          /\ UNCHANGED pdf_content
    /\ UNCHANGED <<Config, idx, Store, response, document_details, document_type,
                   calls, appends, reports, Ghost>>

\* Variant of BuildPrompt that refuses an empty text instead of submitting it.
BuildPromptSkipEmpty ==
    /\ pc = "prompt"
    /\ IF pdf_content = "empty"
       THEN Raise
       ELSE /\ stage' = [stage EXCEPT ![idx] = "PromptBuilt"]
            /\ pc' = "post"
    /\ UNCHANGED <<Config, idx, Store, Locals, calls, appends, reports, Ghost>>

\* extract_data_from_pdf, l.61-80: the type hint and the prompt; no branch
\* on pdf_content.
BuildPrompt ==
    /\ pc = "prompt"
    /\ stage' = [stage EXCEPT ![idx] = "PromptBuilt"]
    /\ pc' = "post"
    /\ UNCHANGED <<Config, idx, Store, Locals, calls, appends, reports, Ghost>>

\* What the service answers to a request carrying this credential.
Answers == IF api_key = "missing"
           THEN {r \in Responses : r.status = 401}
           ELSE Responses

\* Variant of Post that posts again after a transport exception.
PostRetry ==
    /\ pc = "post"
    /\ calls' = [calls EXCEPT ![idx] = @ + 1]
    /\ \/ /\ response' \in Answers
          /\ stage' = [stage EXCEPT ![idx] = "Submitted"]
          /\ pc' = "status"
       \/ /\ calls[idx] < 2
          /\ UNCHANGED <<response, stage, pc>>
    /\ UNCHANGED <<Config, idx, Store, pdf_content, document_details, document_type,
                   appends, reports, Ghost>>

\* requests.post(...): one outbound call; a response, or a transport exception.
Post ==
    /\ pc = "post"
    /\ calls' = [calls EXCEPT ![idx] = @ + 1]
    /\ \/ /\ response' \in Answers
          /\ stage' = [stage EXCEPT ![idx] = "Submitted"]
          /\ pc' = "status"
       \/ /\ Raise
          /\ UNCHANGED response
    /\ UNCHANGED <<Config, idx, Store, pdf_content, document_details, document_type,
                   appends, reports, Ghost>>

\* response.raise_for_status()
CheckStatus ==
    /\ pc = "status"
    /\ IF RaiseForStatus(response)
       THEN Raise
       ELSE pc' = "decode" /\ UNCHANGED stage
    /\ UNCHANGED <<Config, idx, Store, Locals, calls, appends, reports, Ghost>>

\* l.149-152: the text at the envelope path, then json.loads of it; whatever
\* json.loads returns is returned, with no check against the schema.
Decode ==
    /\ pc = "decode"
    /\ LET received == ReceivedJson(response) IN
       IF received.ok /\ JsonLoads(received.text).ok
       THEN /\ document_details' = JsonLoads(received.text)
            /\ stage' = [stage EXCEPT ![idx] = "Validated"]
            /\ pc' = "gettype"
       ELSE /\ Raise
            /\ UNCHANGED document_details
    /\ UNCHANGED <<Config, idx, Store, pdf_content, response, document_type,
                   calls, appends, reports, Ghost>>

\* document_details.get("document_type", "unknown"); AttributeError on a list.
GetType ==
    /\ pc = "gettype"
    /\ IF document_details.isdict
       THEN /\ document_type' = Get(document_details.obj, "document_type", "unknown")
            /\ pc' = "execute"
            /\ UNCHANGED stage
       ELSE /\ Raise
            /\ UNCHANGED document_type
    /\ UNCHANGED <<Config, idx, Store, pdf_content, response, document_details,
                   calls, appends, reports, Ghost>>

\* insert_document_data, l.34-47: the INSERT on the shared connection.
InsertExecute ==
    /\ pc = "execute"
    /\ appends' = [appends EXCEPT ![idx] = @ + 1]
    /\ \/ /\ \E now \in Clock :
                pending' = Executed(NewRow(idx, document_type, document_details.obj, now))
          /\ pc' = "commit"
          /\ UNCHANGED stage
       \/ /\ Raise
          /\ UNCHANGED pending
    /\ UNCHANGED <<Config, idx, conn, closes, rows, Locals, calls, reports, Ghost>>

\* insert_document_data, l.48: conn.commit(); no rollback follows a failure.
InsertCommit ==
    /\ pc = "commit"
    /\ \/ /\ rows' = Committed
          /\ pending' = <<>>
          /\ stage' = [stage EXCEPT ![idx] = "Persisted"]
          /\ pc' = "print"
       \/ /\ pending' \in CommitFailureLeaves
          /\ Raise
          /\ UNCHANGED rows
    /\ UNCHANGED <<Config, idx, conn, closes, Locals, calls, appends, reports, Ghost>>

\* l.191-193: the extraction is printed.
PrintDetails ==
    /\ pc = "print"
    /\ reports' = Append(reports, [doc |-> idx, result |-> "success"])
    /\ pc' = "loop"
    /\ UNCHANGED <<Config, idx, Store, Locals, stage, calls, appends, Ghost>>

\* Variant of Except that leaves the loop after the error line.
ExceptAbort ==
    /\ pc = "except"
    /\ reports' = Append(reports, [doc |-> idx, result |-> "failure"])
    /\ pc' = "close"
    /\ UNCHANGED <<Config, idx, Store, Locals, stage, calls, appends, Ghost>>

\* Variant of Except that runs the failed document once more.
ExceptRetry ==
    /\ pc = "except"
    /\ reports' = Append(reports, [doc |-> idx, result |-> "failure"])
    /\ pc' = IF Len(reports) < n THEN "read" ELSE "loop"
    /\ UNCHANGED <<Config, idx, Store, Locals, stage, calls, appends, Ghost>>

\* l.194-195: except Exception: one error line, then the next iteration.
Except ==
    /\ pc = "except"
    /\ reports' = Append(reports, [doc |-> idx, result |-> "failure"])
    /\ pc' = "loop"
    /\ UNCHANGED <<Config, idx, Store, Locals, stage, calls, appends, Ghost>>

\* l.197: conn.close(); an open transaction is discarded.
Close ==
    /\ pc = "close"
    /\ conn' = "closed"
    /\ closes' = closes + 1
    /\ pending' = <<>>
    /\ pc' = "done"
    /\ UNCHANGED <<Config, idx, rows, Locals, Progress, Ghost>>

Next ==
    \/ SetupDatabase
    \/ LoopNext
    \/ LoopEnd
    \/ GetPdfContent
    \/ BuildPrompt
    \/ Post
    \/ CheckStatus
    \/ Decode
    \/ GetType
    \/ InsertExecute
    \/ InsertCommit
    \/ PrintDetails
    \/ Except
    \/ Close

Spec == Init /\ [][Next]_vars

\* The loop has a single thread of control and every call returns or raises.
FairSpec == Spec /\ WF_vars(Next)


\* ------------------------------------------- insert_document_data, directly
\* A caller that holds the connection of setup_database and calls
\* insert_document_data with arguments of its choice, going on after an
\* exception as main's loop does.
PersistPayloads == {ObjectOf(SchemaFields), EmptyDict}

InitPersist ==
    /\ mode = "persist"
    /\ pc = "idle"
    /\ api_key = "set"
    /\ n = 0
    /\ idx = 0
    /\ conn = "open"
    /\ closes = 0
    /\ rows \in PriorTables
    /\ pending = <<>>
    /\ InitLocals
    /\ stage = [d \in Docs |-> "Pending"]
    /\ calls = [d \in Docs |-> 0]
    /\ appends = [d \in Docs |-> 0]
    /\ reports = <<>>
    /\ issued = 0
    /\ completed = 0
    /\ filename = <<>>
    /\ inferred = NotDerived

\* insert_document_data(conn, filename, document_type, extracted_data) is called.
PersistCall ==
    /\ pc = "idle"
    /\ issued < MaxInserts
    /\ issued' = issued + 1
    /\ \E f \in Docs, data \in PersistPayloads :
          /\ idx' = f
          /\ document_details' = [ok |-> TRUE, isdict |-> TRUE, obj |-> data]
          /\ document_type' = Get(data, "document_type", "unknown")
    /\ pc' = "p_execute"
    /\ UNCHANGED <<Config, Store, pdf_content, response, Progress, completed,
                   filename, inferred>>

\* l.34-47 of the call
PersistExecute ==
    /\ pc = "p_execute"
    /\ \/ /\ \E now \in Clock :
                pending' = Executed(NewRow(idx, document_type, document_details.obj, now))
          /\ pc' = "p_commit"
       \/ /\ pc' = "idle"
          /\ UNCHANGED pending
    /\ UNCHANGED <<Config, idx, conn, closes, rows, Locals, Progress, Ghost>>

\* l.48 of the call
PersistCommit ==
    /\ pc = "p_commit"
    /\ \/ /\ rows' = Committed
          /\ pending' = <<>>
          /\ completed' = completed + 1
       \/ /\ pending' \in CommitFailureLeaves
          /\ UNCHANGED <<rows, completed>>
    /\ pc' = "idle"
    /\ UNCHANGED <<Config, idx, conn, closes, Locals, Progress, issued, filename, inferred>>

NextPersist ==
    \/ PersistCall
    \/ PersistExecute
    \/ PersistCommit

SpecPersist == InitPersist /\ [][NextPersist]_vars

\* --------------------------------------------------- the type hint, directly
\* Every path main can hand to extract_data_from_pdf ends in ".pdf"; the part
\* before it is built one character at a time, then l.61 is evaluated.
InitType ==
    /\ mode = "type"
    /\ pc = "build"
    /\ api_key = "set"
    /\ n = 0
    /\ idx = 0
    /\ conn = "none"
    /\ closes = 0
    /\ rows = <<>>
    /\ pending = <<>>
    /\ InitLocals
    /\ stage = [d \in Docs |-> "Pending"]
    /\ calls = [d \in Docs |-> 0]
    /\ appends = [d \in Docs |-> 0]
    /\ reports = <<>>
    /\ issued = 0
    /\ completed = 0
    /\ filename = Ext
    /\ inferred = NotDerived

TypeAppend ==
    /\ pc = "build"
    /\ Len(filename) < MaxStem + Len(Ext)
    /\ \E c \in StemChars :
          filename' = SubSeq(filename, 1, Len(filename) - Len(Ext)) \o <<c>> \o Ext
    /\ UNCHANGED <<pc, Config, idx, Store, Locals, Progress, issued, completed, inferred>>

TypeDerive ==
    /\ pc = "build"
    /\ inferred' = DocumentType(filename)
    /\ pc' = "derived"
    /\ UNCHANGED <<Config, idx, Store, Locals, Progress, issued, completed, filename>>

NextType ==
    \/ TypeAppend
    \/ TypeDerive

SpecType == InitType /\ [][NextType]_vars


\* ===================================================================== claims
\* Rows written by this run; an earlier run's row carries an earlier date.
IsNew(r) == r.processed_date >= 0

\* Number of committed rows of this run that carry document d as filename.
NewRowCount(d) ==
    Cardinality({i \in 1..Len(rows) : IsNew(rows[i]) /\ rows[i].filename = d})

\* A failed document is followed by a persisted one.
FailureThenSuccess == \E d \in 1..(n - 1) : stage[d] = "Failed" /\ stage[d + 1] = "Persisted"

\* C1: at the end of the run the outcomes are reported in input order, a
\* document is reported as a success exactly when no stage of it failed, and
\* the table holds one new row per successful document and none for a failed
\* one.
C1_FailureIsolation ==
    pc = "done" =>
        /\ Len(reports) = n
        /\ \A d \in 1..n :
              /\ reports[d].doc = d
              /\ reports[d].result = (IF stage[d] = "Failed" THEN "failure" ELSE "success")
              /\ NewRowCount(d) = (IF stage[d] = "Failed" THEN 0 ELSE 1)

\* C2: no document gets more than one model-service call or more than one
\* storage append.
C2_AtMostOnce == \A d \in Docs : calls[d] <= 1 /\ appends[d] <= 1

\* A run that ended with a document that made its one call and its one
\* append, failed at the commit, and was followed by a persisted document.
C2_Witness ==
    /\ pc = "done"
    /\ n = 2
    /\ stage[1] = "Failed" /\ calls[1] = 1 /\ appends[1] = 1
    /\ stage[2] = "Persisted" /\ calls[2] = 1 /\ appends[2] = 1

\* C3: once the connection is set up, the run eventually ends with every
\* document of the list in a terminal stage and reported, and the connection
\* closed.
C3_RunsToCompletion ==
    (conn = "open") ~>
        (/\ pc = "done"
         /\ Len(reports) = n
         /\ \A d \in 1..n : stage[d] \in Terminal)

\* The run ended, and a document was persisted after an earlier one failed.
C3_Witness ==
    /\ pc = "done"
    /\ Len(reports) = n
    /\ FailureThenSuccess
    /\ \A d \in 1..n : stage[d] \in Terminal

\* C4: every row of this run holds a payload with the required and the
\* optional fields, and a document whose payload lacks summary is not
\* persisted.
C4_OnlyValidatedRows ==
    /\ \A i \in 1..Len(rows) :
          IsNew(rows[i]) => SchemaFields \subseteq DOMAIN rows[i].extracted_data
    /\ \A d \in 1..n :
          (d = idx /\ document_details.ok /\ "summary" \notin DOMAIN document_details.obj)
              => stage[d] # "Persisted" /\ NewRowCount(d) = 0

\* The response is a 2xx whose envelope has output[0].content[0].text.
SuccessResponse(r) ==
    /\ r.status >= 200 /\ r.status < 300
    /\ r.json
    /\ "output" \in DOMAIN r.body
    /\ Len(r.body.output) > 0
    /\ "content" \in DOMAIN r.body.output[1]
    /\ Len(r.body.output[1].content) > 0
    /\ "text" \in DOMAIN r.body.output[1].content[1]

\* C5: a document whose model call did not end in a success response is
\* never returned an extraction, reported as a success or given a row.
C5_ServiceFailureFails ==
    (idx \in 1..n /\ calls[idx] = 1 /\ ~SuccessResponse(response)) =>
        /\ stage[idx] \notin {"Validated", "Persisted"}
        /\ NewRowCount(idx) = 0
        /\ \A i \in 1..Len(reports) :
              reports[i].doc = idx => reports[i].result = "failure"

RECURSIVE LastIndexOf(_, _)
\* The last position of c in s, 0 when there is none.
LastIndexOf(s, c) ==
    IF Len(s) = 0 THEN 0
    ELSE IF s[Len(s)] = c THEN Len(s)
    ELSE LastIndexOf(SubSeq(s, 1, Len(s) - 1), c)

\* The final path segment with its last extension removed.
Stem(f) ==
    LET seg == SubSeq(f, LastIndexOf(f, "/") + 1, Len(f))
        dot == LastIndexOf(seg, ".")
    IN IF dot = 0 THEN seg ELSE SubSeq(seg, 1, dot - 1)

\* The final path segment has an extension: a dot after a character that is
\* not a dot.
HasExtension(f) ==
    LET seg == SubSeq(f, LastIndexOf(f, "/") + 1, Len(f))
        dot == LastIndexOf(seg, ".")
    IN \E i \in 1..(dot - 1) : seg[i] # "."

\* C6: the type hint of a filename that has an extension is its final path
\* segment with only the last extension removed.
C6_TypeIsStem ==
    (pc = "derived" /\ HasExtension(filename))
        => inferred.ok /\ inferred.value = Stem(filename)

\* C7: rows are only appended, never changed; the table grows by exactly one
\* row per completed insert_document_data call and by none otherwise; and
\* two rows of the same filename differ in id and in processed_date.
C7_AppendOnly ==
    /\ [][/\ Len(rows') >= Len(rows)
          /\ SubSeq(rows', 1, Len(rows)) = rows
          /\ Len(rows') = Len(rows) + (completed' - completed)]_vars
    /\ [](\A i, j \in 1..Len(rows) :
             (i # j /\ rows[i].filename = rows[j].filename)
                 => /\ rows[i].id # rows[j].id
                    /\ rows[i].processed_date # rows[j].processed_date)

\* C8: a document whose extracted text is empty is past text extraction
\* without a failure and on its way to the model call, or has made exactly
\* one model call.
C8_EmptyTextSubmitted ==
    (idx \in 1..n /\ pdf_content = "empty") =>
        \/ /\ pc \in {"prompt", "post"}
           /\ stage[idx] \in {"TextExtracted", "PromptBuilt"}
           /\ calls[idx] = 0
        \/ /\ pc \notin {"prompt", "post"}
           /\ calls[idx] = 1

\* An empty-text document went through the model call and was persisted.
C8_Witness ==
    /\ idx \in 1..n
    /\ pdf_content = "empty"
    /\ stage[idx] = "Persisted"
    /\ calls[idx] = 1

\* C9: a failed document never has a committed row, and the one connection
\* is closed exactly once, at the end of the run.
C9_ConsistentAfterFailure ==
    /\ \A d \in 1..n : stage[d] = "Failed" => NewRowCount(d) = 0
    /\ closes = (IF pc = "done" THEN 1 ELSE 0)
    /\ (conn = "closed") = (pc = "done")

StageEdges ==
    {<<"Pending", "TextExtracted">>, <<"TextExtracted", "PromptBuilt">>,
     <<"PromptBuilt", "Submitted">>, <<"Submitted", "Validated">>,
     <<"Validated", "Persisted">>}
    \cup {<<s, "Failed">> : s \in {"Pending", "TextExtracted", "PromptBuilt",
                                   "Submitted", "Validated"}}

StageStep ==
    \A d \in Docs :
        /\ stage'[d] # stage[d] => <<stage[d], stage'[d]>> \in StageEdges
        /\ appends'[d] # appends[d] => stage[d] = "Validated"
        /\ calls'[d] # calls[d] => stage[d] = "PromptBuilt"
        /\ stage[d] \in Terminal => calls'[d] = calls[d] /\ appends'[d] = appends[d]
        /\ (d > 1 /\ stage[d] = "Pending" /\ stage'[d] # "Pending")
               => stage[d - 1] \in Terminal

====
